---- MODULE Spec2Model ----
(***************************************************************************)
(* Model of haystack/core/type_utils.py: the runtime type-compatibility    *)
(* checker used to validate connections between components.               *)
(*                                                                         *)
(* A type descriptor is a record [kind, name, args]:                       *)
(*   kind = "Any"      typing.Any                                          *)
(*   kind = "class"    a plain class (int, bool, str, object, list)        *)
(*   kind = "alias"    a bare typing alias (typing.List, typing.Tuple):    *)
(*                     it has an origin and an empty argument list         *)
(*   kind = "generic"  a subscripted generic (List[int], Tuple[int, str])  *)
(*   kind = "Union"    typing.Union[...]                                   *)
(*   kind = "Literal"  typing.Literal[...]                                 *)
(*   kind = "value"    a constant inside a Literal                         *)
(* The verdict of a call is "True", "False" or "TypeError" (an exception   *)
(* that escaped the call).                                                 *)
(***************************************************************************)
EXTENDS Integers, Sequences, FiniteSets

VARIABLES sender, receiver, type_validation, result, pc

vars == <<sender, receiver, type_validation, result, pc>>

\* ------------------------------------------------------------------ bounds
MaxAlts == 2
MaxArgs == 2
MaxLitVals == 2

\* ------------------------------------------------------- verdicts / helpers
True == "True"
False == "False"
TypeError == "TypeError"
None == "None"

Min(a, b) == IF a <= b THEN a ELSE b

Range(s) == {s[i] : i \in 1..Len(s)}

DistinctSeqs(S, n) == {s \in [1..n -> S] : \A i, j \in 1..n : i # j => s[i] # s[j]}

\* ------------------------------------------------------------- descriptors
Any == [kind |-> "Any", name |-> "Any", args |-> <<>>]

Class(n) == [kind |-> "class", name |-> n, args |-> <<>>]

Alias(o) == [kind |-> "alias", name |-> o, args |-> <<>>]

Generic(o, a) == [kind |-> "generic", name |-> o, args |-> a]

UnionOf(a) == [kind |-> "Union", name |-> "Union", args |-> a]

LiteralOf(v) == [kind |-> "Literal", name |-> "Literal", args |-> v]

Value(v) == [kind |-> "value", name |-> v, args |-> <<>>]

\* The class hierarchy: bool < int < object, str < object, list < object.
Mro(c) ==
  CASE c = "bool" -> {"bool", "int", "object"}
    [] c = "int" -> {"int", "object"}
    [] c = "str" -> {"str", "object"}
    [] c = "list" -> {"list", "object"}
    [] c = "tuple" -> {"tuple", "object"}
    [] c = "Any" -> {"Any", "object"}
    [] OTHER -> {"object"}

\* get_origin: the unsubscripted origin of a typing construct, None otherwise.
get_origin(t) == IF t.kind \in {"alias", "generic", "Union", "Literal"} THEN t.name ELSE None

\* get_args: the argument tuple, () when there is none.
get_args(t) == t.args

\* Python's == on descriptors: Union and Literal compare their arguments as
\* sets, a subscripted generic compares origin and argument tuple.
RECURSIVE PyEq(_, _)
PyEq(a, b) ==
  IF a.kind # b.kind \/ a.name # b.name THEN FALSE
  ELSE IF a.kind \in {"Union", "Literal"}
       THEN /\ \A i \in 1..Len(a.args) : \E j \in 1..Len(b.args) : PyEq(a.args[i], b.args[j])
            /\ \A j \in 1..Len(b.args) : \E i \in 1..Len(a.args) : PyEq(a.args[i], b.args[j])
       ELSE /\ Len(a.args) = Len(b.args)
            /\ \A i \in 1..Len(a.args) : PyEq(a.args[i], b.args[i])

\* any(...) over a generator: the first element that is not False decides
\* (True stops the iteration, an exception escapes it).
py_any(rs) ==
  IF \E i \in 1..Len(rs) : rs[i] # False
  THEN rs[CHOOSE i \in 1..Len(rs) : rs[i] # False /\ \A j \in 1..(i - 1) : rs[j] = False]
  ELSE False

\* all(...) over a generator: the first element that is not True decides.
py_all(rs) ==
  IF \E i \in 1..Len(rs) : rs[i] # True
  THEN rs[CHOOSE i \in 1..Len(rs) : rs[i] # True /\ \A j \in 1..(i - 1) : rs[j] = True]
  ELSE True

\* zip(a, b): positional pairs, truncated to the shorter tuple.
zip(a, b) == [i \in 1..Min(Len(a), Len(b)) |-> <<a[i], b[i]>>]

\* A class object: a plain class, or typing.Any (a class of its own at runtime).
IsClass(t) == t.kind \in {"class", "Any"}

\* issubclass(cls, classinfo) of the runtime: a class against a class follows
\* the hierarchy; a bare alias as classinfo checks against its origin class;
\* a Union as classinfo checks its alternatives in order; everything else
\* raises TypeError.
RECURSIVE issubclass(_, _)
issubclass(cls, classinfo) ==
  IF IsClass(classinfo)
  THEN IF IsClass(cls)
       THEN (IF classinfo.name \in Mro(cls.name) THEN True ELSE False)
       ELSE TypeError
  ELSE IF classinfo.kind = "alias"
  THEN IF IsClass(cls) \/ cls.kind = "alias"
       THEN (IF classinfo.name \in Mro(cls.name) THEN True ELSE False)
       ELSE TypeError
  ELSE IF classinfo.kind = "Union"
  THEN py_any([i \in 1..Len(classinfo.args) |-> issubclass(cls, classinfo.args[i])])
  ELSE TypeError

\* The same block without its except clause: the TypeError escapes.
try_issubclass_unguarded(a, b) ==
  LET v == issubclass(a, b) IN IF v = False THEN "pass" ELSE v

\* try: if issubclass(a, b): return True / except TypeError: pass.
\* "True" when the block returns True, "pass" when evaluation goes on.
try_issubclass(a, b) == IF issubclass(a, b) = True THEN True ELSE "pass"

\* ------------------------------------------------------ strict validation
RECURSIVE _strict_types_are_compatible(_, _)

\* Lines 50-51 alone: the "sender is Any" rejection is missing.
strict_any_or_equal_keeps_any(s, r) ==
  IF PyEq(s, r) \/ r = Any THEN True ELSE "pass"

\* Lines 50-54: equality, Any as receiver, Any as sender.
strict_any_or_equal(s, r) ==
  IF PyEq(s, r) \/ r = Any THEN True
  ELSE IF s = Any THEN False
  ELSE "pass"

\* Line 66 with all() in place of any().
strict_union_receiver_all(s, r) ==
  py_all([i \in 1..Len(get_args(r)) |-> _strict_types_are_compatible(s, get_args(r)[i])])

\* Line 66: the sender against each alternative of a Union receiver.
strict_union_receiver(s, r) ==
  py_any([i \in 1..Len(get_args(r)) |-> _strict_types_are_compatible(s, get_args(r)[i])])

\* Lines 72-78 without the length test of lines 75-76.
strict_compare_args_no_length(s, r) ==
  LET pairs == zip(get_args(s), get_args(r))
  IN py_all([i \in 1..Len(pairs) |-> _strict_types_are_compatible(pairs[i][1], pairs[i][2])])

\* Lines 72-78 with the length test of the relaxed algorithm (equal lengths).
strict_compare_args_equal_length(s, r) ==
  LET pairs == zip(get_args(s), get_args(r))
  IN IF Len(get_args(s)) # Len(get_args(r)) THEN False
     ELSE py_all([i \in 1..Len(pairs) |-> _strict_types_are_compatible(pairs[i][1], pairs[i][2])])

\* Lines 72-78: positional comparison of the generic arguments.
strict_compare_args(s, r) ==
  LET sender_args == get_args(s)
      receiver_args == get_args(r)
      pairs == zip(sender_args, receiver_args)
  IN IF Len(sender_args) > Len(receiver_args) THEN False
     ELSE py_all([i \in 1..Len(pairs) |-> _strict_types_are_compatible(pairs[i][1], pairs[i][2])])

_strict_types_are_compatible(s, r) ==
  LET early == strict_any_or_equal(s, r)
      sub == try_issubclass(s, r)
      sender_origin == get_origin(s)
      receiver_origin == get_origin(r)
  IN IF early # "pass" THEN early
     ELSE IF sub # "pass" THEN sub
     ELSE IF sender_origin # "Union" /\ receiver_origin = "Union" THEN strict_union_receiver(s, r)
     ELSE IF ~(sender_origin # None /\ receiver_origin # None /\ sender_origin = receiver_origin) THEN False
     ELSE strict_compare_args(s, r)

\* ----------------------------------------------------- relaxed validation
RECURSIVE _relaxed_types_are_compatible(_, _)

\* Lines 96-101 alone: the reverse test of lines 103-108 is missing.
relaxed_subclass_forward_only(s, r) == try_issubclass(s, r)

\* Lines 96-108: the subclass test in both directions.
relaxed_subclass_either(s, r) ==
  LET fwd == try_issubclass(s, r)
  IN IF fwd # "pass" THEN fwd ELSE try_issubclass(r, s)

\* Lines 145-152 where two Unions need every sender alternative matched.
relaxed_check_union_containment(s, r, sender_origin, receiver_origin) ==
  IF sender_origin = "Union" /\ receiver_origin # "Union"
  THEN py_any([i \in 1..Len(get_args(s)) |-> _relaxed_types_are_compatible(get_args(s)[i], r)])
  ELSE IF receiver_origin = "Union" /\ sender_origin # "Union"
  THEN py_any([i \in 1..Len(get_args(r)) |-> _relaxed_types_are_compatible(s, get_args(r)[i])])
  ELSE py_all([i \in 1..Len(get_args(s)) |->
                 py_any([j \in 1..Len(get_args(r)) |->
                           _relaxed_types_are_compatible(get_args(s)[i], get_args(r)[j])])])

_relaxed_check_union_compatibility(s, r, sender_origin, receiver_origin) ==
  IF sender_origin = "Union" /\ receiver_origin # "Union"
  THEN py_any([i \in 1..Len(get_args(s)) |-> _relaxed_types_are_compatible(get_args(s)[i], r)])
  ELSE IF receiver_origin = "Union" /\ sender_origin # "Union"
  THEN py_any([i \in 1..Len(get_args(r)) |-> _relaxed_types_are_compatible(s, get_args(r)[i])])
  ELSE py_any([i \in 1..Len(get_args(s)) |->
                 py_any([j \in 1..Len(get_args(r)) |->
                           _relaxed_types_are_compatible(get_args(s)[i], get_args(r)[j])])])

\* Lines 121-132 without the Literal case of lines 126-127.
relaxed_compare_args_positional(s, r, sender_origin, receiver_origin) ==
  LET pairs == zip(get_args(s), get_args(r))
  IN IF Len(get_args(s)) # Len(get_args(r)) THEN False
     ELSE py_all([i \in 1..Len(pairs) |-> _relaxed_types_are_compatible(pairs[i][1], pairs[i][2])])

\* Lines 121-132: Literal intersection, else positional comparison of
\* argument lists of equal length.
relaxed_compare_args(s, r, sender_origin, receiver_origin) ==
  LET sender_args == get_args(s)
      receiver_args == get_args(r)
      pairs == zip(sender_args, receiver_args)
  IN IF sender_origin = "Literal" /\ receiver_origin = "Literal"
     THEN (IF \E i \in 1..Len(sender_args) : \E j \in 1..Len(receiver_args) :
                 PyEq(sender_args[i], receiver_args[j])
           THEN True ELSE False)
     ELSE IF Len(sender_args) # Len(receiver_args) THEN False
     ELSE py_all([i \in 1..Len(pairs) |-> _relaxed_types_are_compatible(pairs[i][1], pairs[i][2])])

_relaxed_types_are_compatible(s, r) ==
  LET sub == relaxed_subclass_either(s, r)
      sender_origin == get_origin(s)
      receiver_origin == get_origin(r)
  IN IF s = Any \/ r = Any \/ PyEq(s, r) THEN True
     ELSE IF sub # "pass" THEN sub
     ELSE IF sender_origin = "Union" \/ receiver_origin = "Union"
     THEN _relaxed_check_union_compatibility(s, r, sender_origin, receiver_origin)
     ELSE IF ~(sender_origin # None /\ sender_origin # None /\ sender_origin = receiver_origin) THEN False
     ELSE relaxed_compare_args(s, r, sender_origin, receiver_origin)

\* ------------------------------------------------------------ entry point
_types_are_compatible(s, r, mode) ==
  IF mode = "strict" THEN _strict_types_are_compatible(s, r)
  ELSE IF mode = "relaxed" THEN _relaxed_types_are_compatible(s, r)
  ELSE True

\* ------------------------------------------------- the descriptors compared
Modes == {"strict", "relaxed", "disabled"}

ArgTypes == {Any, Class("int"), Class("bool"), Class("str")}

TupleArgs == {Any, Class("int"), Class("str")}

ListArgs == ArgTypes \cup {Alias("list"), Generic("list", <<Class("int")>>)}

UnionAlts == ArgTypes \cup {Generic("list", <<Class("int")>>), LiteralOf(<<Value("a")>>)}

NestedAlts == {Class("int"), Class("bool"), Class("str")}

LiteralValues == {Value("a"), Value("b"), Value("c")}

Atoms == {Any, Class("object"), Class("int"), Class("bool"), Class("str"), Class("list"),
          Alias("list"), Alias("tuple")}

Literals == UNION {{LiteralOf(v) : v \in DistinctSeqs(LiteralValues, n)} : n \in 1..MaxLitVals}

Unions == UNION {{UnionOf(a) : a \in DistinctSeqs(UnionAlts, n)} : n \in 2..MaxAlts}

Generics ==
  {Generic("list", <<x>>) : x \in ListArgs}
    \cup UNION {{Generic("tuple", a) : a \in [1..n -> TupleArgs]} : n \in 1..MaxArgs}

NestedGenerics ==
  UNION {{Generic("list", <<UnionOf(a)>>) : a \in DistinctSeqs(NestedAlts, n)} : n \in 2..MaxAlts}

Descriptors == Atoms \cup Literals \cup Unions \cup Generics \cup NestedGenerics

\* ------------------------------------------------------------ state machine
Init ==
  /\ sender \in Descriptors
  /\ receiver \in Descriptors
  /\ type_validation \in Modes
  /\ result = "none"
  /\ pc = "call"

\* One call of the entry point on the chosen descriptors and mode.
Check ==
  /\ pc = "call"
  /\ result' = _types_are_compatible(sender, receiver, type_validation)
  /\ pc' = "done"
  /\ UNCHANGED <<sender, receiver, type_validation>>

Next == Check

Spec == Init /\ [][Next]_vars

TypeOK ==
  /\ pc \in {"call", "done"}
  /\ result \in {"none", True, False, TypeError}
  /\ pc = "done" <=> result # "none"

\* ---------------------------------------------------------------- properties
Done(mode) == pc = "done" /\ type_validation = mode

Perms(n) == {p \in [1..n -> 1..n] : \A i, j \in 1..n : i # j => p[i] # p[j]}

\* Every descriptor obtained from d by reordering the alternatives of the
\* Unions it contains, at any depth.
RECURSIVE Reorderings(_)
Reorderings(d) ==
  IF d.args = <<>> THEN {d}
  ELSE LET n == Len(d.args)
           inner == {a \in [1..n -> UNION {Reorderings(d.args[i]) : i \in 1..n}] :
                       \A i \in 1..n : a[i] \in Reorderings(d.args[i])}
       IN IF d.kind = "Union"
          THEN {[d EXCEPT !.args = [i \in 1..n |-> a[p[i]]]] : a \in inner, p \in Perms(n)}
          ELSE {[d EXCEPT !.args = a] : a \in inner}

\* The alternatives of a Union; any other descriptor is its own alternative.
Alts(d) == IF get_origin(d) = "Union" THEN Range(get_args(d)) ELSE {d}

\* An unparameterized form of the generic with origin o.
IsBare(d, o) == d.kind \in {"alias", "class"} /\ d.name = o

\* C1: in strict and in relaxed mode, reordering the alternatives of any
\* Union of the sender or of the receiver (nested ones included) leaves the
\* verdict unchanged.
C1_UnionOrderIrrelevant ==
  (pc = "done" /\ type_validation \in {"strict", "relaxed"}) =>
    \A s2 \in Reorderings(sender) : \A r2 \in Reorderings(receiver) :
      _types_are_compatible(s2, r2, type_validation) = result

\* C2: in strict mode every sender is compatible with the receiver Any, and
\* the sender Any is compatible with a receiver exactly when it is Any.
C2_AnyAbsorption ==
  Done("strict") =>
    /\ receiver = Any => result = True
    /\ sender = Any => (result = True <=> receiver = Any)

C2_Witness ==
  /\ Done("strict")
  /\ sender = Any
  /\ receiver.kind = "Union"
  /\ Any \in Range(receiver.args)
  /\ result = False

\* C3 as stated: in strict mode, with a Union receiver and a sender that is
\* not a Union, the verdict is true exactly when the sender is strictly
\* compatible with some alternative of the receiver.
C3_UnionReceiver ==
  (Done("strict") /\ get_origin(receiver) = "Union" /\ get_origin(sender) # "Union") =>
    (result = True <=>
       \E i \in 1..Len(get_args(receiver)) :
         _strict_types_are_compatible(sender, get_args(receiver)[i]) = True)

\* C3 amended: the same, for a sender that is neither a Union nor Any.
C3_UnionReceiverNotAny ==
  (Done("strict") /\ get_origin(receiver) = "Union" /\ get_origin(sender) # "Union"
     /\ sender # Any) =>
    (result = True <=>
       \E i \in 1..Len(get_args(receiver)) :
         _strict_types_are_compatible(sender, get_args(receiver)[i]) = True)

C3_Witness ==
  /\ Done("strict")
  /\ sender.kind = "generic"
  /\ get_origin(receiver) = "Union"
  /\ issubclass(sender, receiver) = TypeError
  /\ result = True

\* C4: in strict mode, two descriptors that are not equal and have the same
\* origin are compatible exactly when the sender has no more arguments than
\* the receiver and each sender argument is strictly compatible with the
\* receiver argument at its position.
C4_PositionalArgs ==
  (Done("strict") /\ ~PyEq(sender, receiver) /\ get_origin(sender) # None
     /\ get_origin(sender) = get_origin(receiver)) =>
    (result = True <=>
       /\ Len(get_args(sender)) <= Len(get_args(receiver))
       /\ \A i \in 1..Len(get_args(sender)) :
            _strict_types_are_compatible(get_args(sender)[i], get_args(receiver)[i]) = True)

C4_Witness ==
  /\ Done("strict")
  /\ sender.kind = "generic"
  /\ get_origin(sender) = get_origin(receiver)
  /\ Len(get_args(sender)) = 1
  /\ Len(get_args(receiver)) = 2
  /\ result = True

\* C5 as stated: in strict mode an unparameterized generic and a
\* parameterized form of the same generic are incompatible in both directions.
C5_BareNeverCompatible ==
  (Done("strict")
     /\ \/ sender.kind = "generic" /\ IsBare(receiver, sender.name)
        \/ receiver.kind = "generic" /\ IsBare(sender, receiver.name)) =>
    result = False

\* C5 amended: in strict mode a parameterized generic as sender is never
\* compatible with an unparameterized form of it as receiver; as sender, the
\* bare alias (an origin with an empty argument list) is compatible with every
\* parameterized form, and the bare class (no origin) with none.
C5_BareDirectional ==
  Done("strict") =>
    /\ (sender.kind = "generic" /\ IsBare(receiver, sender.name)) => result = False
    /\ (receiver.kind = "generic" /\ sender = Alias(receiver.name)) => result = True
    /\ (receiver.kind = "generic" /\ sender = Class(receiver.name)) => result = False

C5_Witness ==
  /\ Done("strict")
  /\ sender.kind = "alias"
  /\ receiver.kind = "generic"
  /\ receiver.name = sender.name
  /\ result = True

\* C6: in relaxed mode, when a side is a Union, the verdict is true exactly
\* when some sender alternative is relaxed-compatible with some receiver
\* alternative.
C6_UnionCrossProduct ==
  (Done("relaxed") /\ (get_origin(sender) = "Union" \/ get_origin(receiver) = "Union")) =>
    (result = True <=>
       \E a \in Alts(sender) : \E b \in Alts(receiver) :
         _relaxed_types_are_compatible(a, b) = True)

C6_Witness ==
  /\ Done("relaxed")
  /\ get_origin(sender) = "Union"
  /\ get_origin(receiver) = "Union"
  /\ result = True
  /\ \E a \in Alts(sender) : \A b \in Alts(receiver) :
       _relaxed_types_are_compatible(a, b) = False

\* C7: in relaxed mode two Literals are compatible exactly when they have a
\* value in common.
C7_LiteralIntersection ==
  (Done("relaxed") /\ sender.kind = "Literal" /\ receiver.kind = "Literal") =>
    (result = True <=> Range(get_args(sender)) \cap Range(get_args(receiver)) # {})

C7_Witness ==
  /\ Done("relaxed")
  /\ sender.kind = "Literal"
  /\ receiver.kind = "Literal"
  /\ Len(get_args(sender)) # Len(get_args(receiver))
  /\ get_args(sender)[1] # get_args(receiver)[1]
  /\ result = True

\* C8: a call returns True or False in every mode and never lets a TypeError
\* escape; disabled mode returns True.
C8_NeverRaises ==
  pc = "done" =>
    /\ result \in {True, False}
    /\ type_validation = "disabled" => result = True

C8_Witness ==
  /\ pc = "done"
  /\ type_validation \in {"strict", "relaxed"}
  /\ issubclass(sender, receiver) = TypeError
  /\ get_origin(sender) = get_origin(receiver)
  /\ ~PyEq(sender, receiver)
  /\ result = True

\* C9: whatever strict mode accepts, relaxed mode accepts.
C9_RelaxedMorePermissive ==
  (Done("strict") /\ result = True) =>
    _relaxed_types_are_compatible(sender, receiver) = True

\* C10: relaxed mode gives the same verdict with sender and receiver swapped.
C10_RelaxedSymmetric ==
  Done("relaxed") => _relaxed_types_are_compatible(receiver, sender) = result

C10_Witness ==
  /\ Done("relaxed")
  /\ issubclass(sender, receiver) = False
  /\ issubclass(receiver, sender) = True
  /\ result = True

====
